---------------------------- MODULE Spec2Model ----------------------------
(***************************************************************************)
(* Model of the Playwright end-to-end tests of the Warp10 Grafana          *)
(* datasource plugin: the page.on('response') capture listeners, the      *)
(* "Basic scenario" test, the response validation loops, and the selector *)
(* fallback helpers.  The host application (Grafana) and the browser are  *)
(* the environment: they issue exchanges, deliver responses, settle body  *)
(* parsing and make UI actions succeed or throw.                           *)
(***************************************************************************)
EXTENDS Integers, Sequences, FiniteSets, TLC

VARIABLES
    test,            \* which test function is running
    pc,              \* position of the test's single flow of control
    outcome,         \* "running" | "passed" | "failed" (the test threw) | "timedOut"
    failedAt,        \* pc of the statement that threw, "none" otherwise
    listening,       \* page.on('response', ...) has been registered
    inflight,        \* exchanges issued by the page, response not yet received
    pending,         \* listener invocations suspended in `await response.json()`
    responses,       \* the test's `responses` array
    healthResponse,  \* the test's `healthResponse` variable
    completed,       \* history: exchanges in the order their response arrived
    nextId,          \* number of exchanges issued so far
    hostDs,          \* names of the datasources present on the host
    form,            \* inputs of the page: datasource name and url, query editor
    alert,           \* health alert shown by the settings page
    waiters,         \* pending page.waitForRequest / waitForResponse calls
    logged,          \* what the test logged: [health, final], and the entry it validated
    armedAtTrigger,  \* history: was a capture armed when each trigger was issued
    version,         \* the string getGrafanaVersion returned, where it is used
    index,           \* loop variable of the response checking loop
    report,          \* outcome of each expect of the checking loop, as logged
    helper,          \* the selector helper under resolution
    dom,             \* what the page holds for each candidate of the helper
    attempts,        \* `attempts` of the Test-button retry loop
    resolved,        \* what the helper did: [chosen, clicked, threw]
    probes,          \* number of calls of getGrafanaVersion
    choices,         \* branch taken by each `major < 10 ? a : b` and `major >= 10`
    source,          \* timestamp of a datapoint as the time-series store gives it
    converted,       \* the timestamp the response carries for it
    polls,           \* `i` of the editor test's poll loop: waits made so far
    runs             \* scenario flows of the browser projects on one host

vars == << test, pc, outcome, failedAt, listening, inflight, pending, responses,
           healthResponse, completed, nextId, hostDs, form, alert, waiters,
           logged, armedAtTrigger, version, index, report, helper, dom,
           attempts, resolved, probes, choices, source, converted, polls, runs >>

flowVars    == << test, pc, outcome, failedAt >>
listenerVars == << listening, pending, responses, healthResponse >>
captureVars == << listenerVars, waiters >>
netVars     == << inflight, completed, nextId >>
hostVars    == << hostDs, form, alert >>
histVars    == << logged, armedAtTrigger >>
validVars   == << version, index, report, polls >>
resolveVars == << helper, dom, attempts, resolved >>
probeVars   == << probes, choices >>
convVars    == << source, converted >>
parVars     == << runs >>
auxVars     == << validVars, resolveVars, probeVars, convVars, parVars >>

-----------------------------------------------------------------------------
(* Bounds of the model.                                                    *)

\* Exchanges the environment may inject in the capture specification.
MaxExchanges == 3

-----------------------------------------------------------------------------
(* URLs and String.prototype.includes on them.                             *)

UrlQueryWarp10 == "/api/ds/query?ds_type=clevercloud-warp10-datasource"
UrlQueryOther  == "/api/ds/query?ds_type=prometheus"
UrlHealth      == "/api/datasources/uid/test/health"
UrlOther       == "/api/dashboards/home"

Urls == { UrlQueryWarp10, UrlQueryOther, UrlHealth, UrlOther }

\* url.includes(sub) for the substrings the listeners test.
Includes(url, sub) ==
    CASE sub = "/api/ds/query"    -> url \in { UrlQueryWarp10, UrlQueryOther }
      [] sub = "ds_type=clevercloud-warp10-datasource" -> url = UrlQueryWarp10
      [] sub = "/api/datasources" -> url = UrlHealth
      [] sub = "/health"          -> url = UrlHealth
      [] OTHER                    -> FALSE

-----------------------------------------------------------------------------
(* Tests and their listeners.                                              *)

Scenario    == "senario.spec.ts"
Datasource  == "datasource_test.spec.ts"
Editor      == "editor_test.spec.ts"
QueryEditor == "query-editor.spec.ts"

ListenerTests == { Scenario, Datasource, Editor, QueryEditor }

\* A query branch that does not test the method of the request.
QueryFilterAnyMethod(t, ex) ==
    /\ Includes(ex.url, "/api/ds/query")
    /\ (t = QueryEditor => Includes(ex.url, "ds_type=clevercloud-warp10-datasource"))

\* The condition of the listener's first `if`: the query branch.
QueryFilter(t, ex) ==
    /\ Includes(ex.url, "/api/ds/query")
    /\ ex.method = "POST"
    /\ (t = QueryEditor => Includes(ex.url, "ds_type=clevercloud-warp10-datasource"))

\* The condition of the listener's second `if`: the health branch.
HealthFilter(t, ex) ==
    /\ t \in { Scenario, Datasource }
    /\ Includes(ex.url, "/api/datasources")
    /\ Includes(ex.url, "/health")

NullJson == [ status |-> "null", message |-> "" ]
HealthOk == [ status |-> "OK", message |-> "Health check succeeded" ]
HealthRefused == [ status |-> "ERROR", message |-> "connect: connection refused" ]

\* Parsed body of a query response: results.A, its status, the type of
\* frames[0].schema.name and whether frames[0].data.values[0] is an array.
QueryBody(hasA, aStatus, nameType, valuesIsArray) ==
    [ hasA |-> hasA, aStatus |-> aStatus, nameType |-> nameType,
      valuesIsArray |-> valuesIsArray ]

BodyGood == QueryBody(TRUE, 200, "string", TRUE)

HttpStatuses == { 200, 500 }

Exchange(id, url, method, parseable, status, body, query) ==
    [ id |-> id, url |-> url, method |-> method, parseable |-> parseable,
      status |-> status, body |-> body, query |-> query ]


-----------------------------------------------------------------------------
(* The page.on('response') listener.                                       *)

\* A wait predicate without the method test and the postData test.
WaitPredicateUrlOnly(w, ex) ==
    Includes(ex.url, "/api/ds/query")

\* The predicate of a wait without its postData.includes(...) test.
WaitPredicateNoPostData(w, ex) ==
    /\ Includes(ex.url, "/api/ds/query")
    /\ (w.event = "request" => ex.method = "POST")

\* The predicate of a page.waitForRequest / page.waitForResponse call on an
\* exchange: the URL test, the method test (waitForRequest only) and the
\* postData test.
WaitPredicate(w, ex) ==
    /\ Includes(ex.url, "/api/ds/query")
    /\ (w.event = "request" => ex.method = "POST")
    /\ ex.query = w.needle

\* An event of the page resolves every pending wait whose predicate holds.
Notify(event, ex) ==
    { IF w.event = event /\ w.matched = 0 /\ WaitPredicate(w, ex)
      THEN [ w EXCEPT !.matched = ex.id ] ELSE w : w \in waiters }

\* The test body goes on without its page.on('response', ...) statement
\* (the listener is registered only after the actions).
RegisterListenerLate ==
    /\ pc = "start" /\ outcome = "running"
    /\ test \in ListenerTests
    /\ pc' = "registered"
    /\ UNCHANGED << test, outcome, failedAt, captureVars, netVars, hostVars,
                    histVars, auxVars >>

\* First statement of each test body that captures: page.on('response', ...).
RegisterListener ==
    /\ pc = "start" /\ outcome = "running"
    /\ test \in ListenerTests
    /\ listening' = TRUE
    /\ pc' = "registered"
    /\ UNCHANGED << test, outcome, failedAt, pending, responses,
                    healthResponse, waiters, netVars, hostVars, histVars, auxVars >>

\* The listener up to its first suspension: it evaluates the query `if`, and
\* only when that one is false the health `if`, and suspends in response.json().
OnResponse(ex) ==
    IF ~listening THEN pending
    ELSE IF QueryFilter(test, ex)
         THEN pending \cup { [ ex |-> ex, branch |-> "query" ] }
    ELSE IF HealthFilter(test, ex)
         THEN pending \cup { [ ex |-> ex, branch |-> "health" ] }
    ELSE pending

\* The browser receives the response of an exchange: the page shows the health
\* alert, and the 'response' event runs the listener's synchronous prefix.
HostRespond(ex) ==
    /\ outcome = "running"
    /\ ex \in inflight
    /\ inflight' = inflight \ { ex }
    /\ completed' = Append(completed, ex)
    /\ alert' = IF Includes(ex.url, "/health") THEN ex.body.message ELSE alert
    /\ pending' = OnResponse(ex)
    /\ waiters' = Notify("response", ex)
    /\ UNCHANGED << flowVars, listening, responses, healthResponse, nextId,
                    hostDs, form, histVars, auxVars >>

\* The entry the query branch pushes.
Captured(ex) ==
    [ id |-> ex.id, url |-> ex.url, json |-> ex.body, status |-> ex.status ]

\* A listener that keeps only the entry of the response it handled last.
JsonSettleKeepLast(p) ==
    /\ outcome = "running"
    /\ p \in pending
    /\ IF p.branch = "query"
       THEN /\ responses' = IF p.ex.parseable
                            THEN << Captured(p.ex) >>
                            ELSE responses
            /\ pending' = IF HealthFilter(test, p.ex)
                          THEN (pending \ { p }) \cup
                               { [ ex |-> p.ex, branch |-> "health" ] }
                          ELSE pending \ { p }
            /\ UNCHANGED healthResponse
       ELSE /\ healthResponse' = IF p.ex.parseable THEN p.ex.body
                                 ELSE healthResponse
            /\ pending' = pending \ { p }
            /\ UNCHANGED responses
    /\ UNCHANGED << flowVars, listening, waiters, netVars, hostVars, histVars, auxVars >>

\* `await response.json()` settles for one suspended listener invocation, in
\* any order among the suspended ones: it resolves and the try block goes on,
\* or it rejects and the catch block only logs.  After the query branch the
\* listener evaluates the health `if`.
JsonSettle(p) ==
    /\ outcome = "running"
    /\ p \in pending
    /\ IF p.branch = "query"
       THEN /\ responses' = IF p.ex.parseable
                            THEN Append(responses, Captured(p.ex))
                            ELSE responses
            /\ pending' = IF HealthFilter(test, p.ex)
                          THEN (pending \ { p }) \cup
                               { [ ex |-> p.ex, branch |-> "health" ] }
                          ELSE pending \ { p }
            /\ UNCHANGED healthResponse
       ELSE /\ healthResponse' = IF p.ex.parseable THEN p.ex.body
                                 ELSE healthResponse
            /\ pending' = pending \ { p }
            /\ UNCHANGED responses
    /\ UNCHANGED << flowVars, listening, waiters, netVars, hostVars, histVars, auxVars >>

\* Shapes of the traffic of the page under test: matching query exchanges with
\* a JSON body or not, query exchanges the filters reject, health checks and
\* unrelated requests.
TrafficShapes ==
    { [ url |-> UrlQueryWarp10, method |-> "POST", parseable |-> TRUE,  status |-> 200 ],
      [ url |-> UrlQueryWarp10, method |-> "POST", parseable |-> FALSE, status |-> 500 ],
      [ url |-> UrlQueryWarp10, method |-> "GET",  parseable |-> TRUE,  status |-> 200 ],
      [ url |-> UrlQueryOther,  method |-> "POST", parseable |-> TRUE,  status |-> 200 ],
      [ url |-> UrlHealth,      method |-> "GET",  parseable |-> TRUE,  status |-> 200 ],
      [ url |-> UrlOther,       method |-> "GET",  parseable |-> TRUE,  status |-> 200 ] }

\* An exchange some capture of the running test is meant to catch.
Wanted(ex) ==
    IF test \in ListenerTests
    THEN QueryFilter(test, ex) \/ HealthFilter(test, ex)
    ELSE Includes(ex.url, "/api/ds/query") /\ ex.method = "POST"

\* The capture for ex is registered: the listener, or in a test without
\* listener a page.waitForRequest registered for the current step.
CaptureArmed(ex) ==
    IF test \in ListenerTests
    THEN listening
    ELSE \E w \in waiters : w.event = "request"

\* The page issues exchange ex because of the UI action at pc: the 'request'
\* event reaches the pending waits.
Issue(ex) ==
    /\ inflight' = inflight \cup { ex }
    /\ nextId' = nextId + 1
    /\ waiters' = Notify("request", ex)
    /\ armedAtTrigger' =
          IF Wanted(ex)
          THEN armedAtTrigger \cup { [ at |-> pc, armed |-> CaptureArmed(ex) ] }
          ELSE armedAtTrigger

\* Tests whose body is modelled as navigation followed by page traffic.
TrafficTests == { Datasource, Editor, QueryEditor }

\* page.goto(...) after the listener was registered.
Goto ==
    /\ test \in TrafficTests
    /\ pc = "registered" /\ outcome = "running"
    /\ pc' = "navigated"
    /\ UNCHANGED << test, outcome, failedAt, captureVars, netVars, hostVars,
                    histVars, auxVars >>

\* The loaded page issues an exchange (dashboard queries, health checks,
\* unrelated requests) as the test drives it.
EnvRequest ==
    /\ test \in TrafficTests
    /\ pc = "navigated" /\ outcome = "running"
    /\ nextId < MaxExchanges
    /\ \E sh \in TrafficShapes :
          Issue(Exchange(nextId + 1, sh.url, sh.method, sh.parseable, sh.status,
                         IF Includes(sh.url, "/health") THEN HealthOk ELSE BodyGood,
                         "loaded"))
    /\ UNCHANGED << flowVars, listenerVars, completed, hostVars, logged, auxVars >>

InitCommon ==
    /\ pc = "start"
    /\ outcome = "running"
    /\ failedAt = "none"
    /\ listening = FALSE
    /\ inflight = {}
    /\ pending = {}
    /\ responses = << >>
    /\ healthResponse = NullJson
    /\ completed = << >>
    /\ nextId = 0
    /\ hostDs = {}
    /\ form = [ name |-> "", url |-> "", query |-> "", saved |-> FALSE ]
    /\ alert = "none"
    /\ waiters = {}
    /\ logged = [ health |-> "none", final |-> "none", validated |-> 0 ]
    /\ armedAtTrigger = {}

NoResult == [ chosen |-> 0, clicked |-> FALSE, threw |-> FALSE ]

\* The constants the tests choose by the major version, and the condition of
\* the editor test's verification block.
ChoiceNames ==
    { "basePath", "saveButtonName", "myDsPath", "dsPath", "saveButton",
      "deleteButton", "confirmButton", "verify" }

NoChoices == [ f \in ChoiceNames |-> "none" ]

\* A timestamp is written as whole seconds s and a fraction f of a second, in
\* the unit of the timestamp: its value is s * 10^6 + f in microseconds and
\* s * 10^3 + f in milliseconds.
Timestamp(s, f) == [ s |-> s, f |-> f ]

NoTimestamp == Timestamp(-1, 0)

\* The browser projects that run the test files.
Projects == { "chromium", "firefox" }

\* No scenario flow of a project is under way.
NoRuns ==
    [ at      |-> [ p \in Projects |-> "idle" ],
      ds      |-> {},
      alert   |-> [ p \in Projects |-> "none" ],
      opened  |-> [ p \in Projects |-> "none" ],
      crossed |-> [ p \in Projects |-> FALSE ] ]

\* The variables of the response checking loop and of the selector helpers
\* while neither runs.
InitAux ==
    /\ version = "unprobed"
    /\ index = 0
    /\ report = << >>
    /\ helper = "none"
    /\ dom = << >>
    /\ attempts = 0
    /\ resolved = NoResult
    /\ probes = 0
    /\ choices = NoChoices
    /\ source = NoTimestamp
    /\ converted = NoTimestamp
    /\ polls = 0
    /\ runs = NoRuns

InitCapture ==
    /\ test \in TrafficTests
    /\ InitCommon
    /\ InitAux

NextCapture ==
    \/ RegisterListener
    \/ Goto
    \/ EnvRequest
    \/ \E ex \in inflight : HostRespond(ex)
    \/ \E p \in pending : JsonSettle(p)

SpecCapture == InitCapture /\ [][NextCapture]_vars

-----------------------------------------------------------------------------
(* clickAddPanelButton: the selector fallback of the scenario.             *)

AddPanelSelectors ==
    << "[data-testid=\"data-testid Create new panel button\"]",
       "[data-testid=\"add-panel-button\"]",
       "button[aria-label=\"Add new panel\"]",
       "button:has-text(\"Add visualization\")" >>

\* What the page holds for one selector.
\* "late": not in the page when it is probed, visible within the bounded wait.
DomStates == { "absent", "late", "hidden", "visible" }

Min(S) == CHOOSE x \in S : \A y \in S : x <= y

\* for (sel of selectors) { el = await page.$(sel); if (el) { await el.click();
\* return } }  throw: page.$ finds an element that is in the DOM, visible or
\* not, and el.click() on an element that never becomes visible times out.
clickAddPanelButton(d) ==
    LET found == { i \in DOMAIN d : d[i] \in { "hidden", "visible" } }
    IN  IF found = {}
        THEN [ chosen |-> 0, clicked |-> FALSE, threw |-> TRUE ]
        ELSE [ chosen |-> Min(found),
               clicked |-> d[Min(found)] = "visible",
               threw |-> d[Min(found)] # "visible" ]

EditSelectors ==
    << "role=link[name=Edit]", "button[role=\"menuitem\"]:has-text(\"Edit\")" >>

\* if (await roleBased.count() > 0 && await roleBased.first().isVisible())
\* { click; return }  the same for menuItemEdit;  throw
clickEditButton(d) ==
    LET vis == { i \in DOMAIN d : d[i] = "visible" }
    IN  IF vis = {}
        THEN [ chosen |-> 0, clicked |-> FALSE, threw |-> TRUE ]
        ELSE [ chosen |-> Min(vis), clicked |-> TRUE, threw |-> FALSE ]

MenuToggleSelectors ==
    << "button[aria-label=\"Toggle menu\"]",
       "button[aria-label=\"Open menu\"]",
       "#mega-menu-toggle" >>

DashboardsNavSelectors ==
    << "a[href=\"/dashboards\"]",
       "a[data-testid=\"data-testid Nav menu item\"] >> text=Dashboards",
       "a:has-text(\"Dashboards\")" >>

\* Helpers that probe their selectors with Promise.race.
RaceHelpers == { "clickMenuToggle", "clickDashboardsNav" }

RaceSelectors(h) ==
    IF h = "clickMenuToggle" THEN MenuToggleSelectors ELSE DashboardsNavSelectors

\* page.waitForSelector(selector, { state: 'visible' }) resolves for an element
\* that is visible or becomes so within the wait, and rejects otherwise.
ProbeResolves(st) == st \in { "late", "visible" }

\* The probes that can be the first of the race to settle: one whose element is
\* already visible settles at once; when there is none, the first is any probe,
\* among them one that rejects before a late element has appeared.
FirstSettled(d) ==
    IF \E i \in DOMAIN d : d[i] = "visible"
    THEN { i \in DOMAIN d : d[i] = "visible" }
    ELSE DOMAIN d

\* found = await Promise.race(selectors.map(s => page.waitForSelector(s, ...)
\*            .then(() => s).catch(() => null)))
\* when probe i is the first to settle: its selector, or null (0).
RaceFound(d, i) == IF ProbeResolves(d[i]) THEN i ELSE 0

\* Page states of goToNewDashboard: the direct 'New dashboard' link, the
\* 'General' entry, and the nested 'New dashboard' entry once General is open.
NewDashboardSelectors ==
    << "a[href*=\"/new-dashboard\"]:has-text(\"New dashboard\")",
       "text=General", "text=New dashboard" >>

\* goToNewDashboard: click the direct link when visible; else click 'General'
\* when visible and then the nested link when visible; throw otherwise.
goToNewDashboard(d) ==
    IF d[1] = "visible"
    THEN [ chosen |-> 1, clicked |-> TRUE, threw |-> FALSE ]
    ELSE IF d[2] = "visible"
         THEN IF d[3] = "visible"
              THEN [ chosen |-> 3, clicked |-> TRUE, threw |-> FALSE ]
              ELSE [ chosen |-> 2, clicked |-> TRUE, threw |-> TRUE ]
         ELSE [ chosen |-> 0, clicked |-> FALSE, threw |-> TRUE ]

-----------------------------------------------------------------------------
(* Test 'Basic scenario: Create DS, Dashboard, Select Datasource, Get      *)
(* Warp10 Response' (senario.spec.ts, the version with the invalid-URL     *)
(* check and clickAddPanelButton).                                          *)

InvalidUrl == "http://localhost:9999"
ValidUrl   == "http://warp10:8080"
DsName     == "test_warp10"
NewDsName  == "clevercloud-warp10-datasource"

\* An exception leaves the test function: the test fails where it stands and
\* none of the statements after it runs.
Throw ==
    /\ outcome' = "failed"
    /\ failedAt' = pc
    /\ pc' = "done"
    /\ UNCHANGED test

Advance(to) ==
    /\ pc' = to
    /\ UNCHANGED << test, outcome, failedAt >>

At(p) == test = Scenario /\ pc = p /\ outcome = "running"

\* A statement that drives the page and touches nothing else: it returns, or it
\* throws (navigation error, locator timeout).
UiStep(from, to) ==
    /\ At(from)
    /\ \/ Advance(to)
       \/ Throw
    /\ UNCHANGED << captureVars, netVars, hostVars, histVars, auxVars >>

\* const version = await getGrafanaVersion(page); log(version): this version
\* of the scenario only logs the string.
S_getGrafanaVersion == UiStep("registered", "gotoNew")

\* await page.goto(basePath); await page.waitForTimeout(1000)
S_gotoNew == UiStep("gotoNew", "clickWarp10")

\* click 'Warp10': the host creates a datasource under its default name and
\* opens its settings form.
S_clickWarp10 ==
    /\ At("clickWarp10")
    /\ \/ /\ Advance("fillName")
          /\ hostDs' = hostDs \cup { NewDsName }
          /\ form' = [ form EXCEPT !.name = NewDsName, !.url = "", !.saved = FALSE ]
          /\ UNCHANGED alert
       \/ Throw /\ UNCHANGED hostVars
    /\ UNCHANGED << captureVars, netVars, histVars, auxVars >>

Fill(from, to, field, value) ==
    /\ At(from)
    /\ \/ Advance(to) /\ form' = [ form EXCEPT ![field] = value ]
       \/ Throw /\ UNCHANGED form
    /\ UNCHANGED << captureVars, netVars, hostDs, alert, histVars, auxVars >>

\* await page.fill('#basic-settings-name', 'test_warp10')
S_fillName == Fill("fillName", "fillInvalidUrl", "name", DsName)

\* await urlInputInvalid.fill('http://localhost:9999')
S_fillInvalidUrl == Fill("fillInvalidUrl", "clickSaveInvalid", "url", InvalidUrl)

\* What the health endpoint can answer for a backend URL: the plugin backend
\* decides, and the test only observes it.
HealthBodies(url) ==
    IF url = "" THEN { HealthRefused } ELSE { HealthOk, HealthRefused }

\* The alert of the settings page when the host refuses to save.
NameExists == "data source with the same name already exists"

\* The name in the form belongs to another datasource of the host: the form
\* has not been saved under it, and the host has a datasource of that name.
NameTaken == ~form.saved /\ form.name \in hostDs

\* click 'Save & test': the host stores the form under its name and the page
\* asks the health endpoint, whose answer depends on the backend URL; a host
\* that already has a datasource of that name refuses and shows the error.
SaveAndTest(from, to) ==
    /\ At(from)
    /\ \/ /\ Advance(to)
          /\ ~NameTaken
          /\ hostDs' = (hostDs \ { NewDsName }) \cup { form.name }
          /\ form' = [ form EXCEPT !.saved = TRUE ]
          /\ alert' = "none"
          /\ \E body \in HealthBodies(form.url), parseable \in BOOLEAN :
                Issue(Exchange(nextId + 1, UrlHealth, "GET", parseable,
                               IF body = HealthOk THEN 200 ELSE 500, body, "health"))
          /\ UNCHANGED completed
       \/ /\ Advance(to)
          /\ NameTaken
          /\ alert' = NameExists
          /\ UNCHANGED << netVars, hostDs, form, waiters, armedAtTrigger >>
       \/ Throw /\ UNCHANGED << netVars, hostVars, waiters, armedAtTrigger >>
    /\ UNCHANGED << listenerVars, logged, auxVars >>

\* if (saveButton.type === 'role') await page.getByRole(...).click()
S_clickSaveInvalid == SaveAndTest("clickSaveInvalid", "expectAlertVisible")

\* await expect(alertSelector).toBeVisible({ timeout: 3000 })
S_expectAlertVisible ==
    /\ At("expectAlertVisible")
    /\ IF alert # "none" THEN Advance("expectAlertText") ELSE Throw
    /\ UNCHANGED << captureVars, netVars, hostVars, histVars, auxVars >>

\* The scenario without its expect on the alert text.
S_expectAlertTextSkipped == UiStep("expectAlertText", "fillUrl")

\* expect(alertText).toContain('connect: connection refused')
S_expectAlertText ==
    /\ At("expectAlertText")
    /\ IF alert = HealthRefused.message THEN Advance("fillUrl") ELSE Throw
    /\ UNCHANGED << captureVars, netVars, hostVars, histVars, auxVars >>

\* await urlInput.fill('http://warp10:8080'); await urlInput.inputValue()
S_fillUrl == Fill("fillUrl", "clickSave", "url", ValidUrl)

\* waitForTimeout(1000); click saveButtonName; waitForTimeout(1000)
S_clickSave == SaveAndTest("clickSave", "checkHealth")

\* if (healthResponse) log('Health check passed') else log('not received')
S_checkHealth ==
    /\ At("checkHealth")
    /\ Advance("clickBuild")
    /\ logged' = [ logged EXCEPT !.health =
                      IF healthResponse # NullJson THEN "passed" ELSE "not received" ]
    /\ UNCHANGED << captureVars, netVars, hostVars, armedAtTrigger, auxVars >>

\* click 'Build a dashboard'; waitForTimeout(500)
S_clickBuild == UiStep("clickBuild", "addPanel")

\* await clickAddPanelButton(page); waitForTimeout(500)
S_addPanel ==
    /\ At("addPanel")
    /\ \E d \in [ DOMAIN AddPanelSelectors -> DomStates ] :
          IF clickAddPanelButton(d).threw THEN Throw ELSE Advance("selectDs")
    /\ UNCHANGED << captureVars, netVars, hostVars, histVars, auxVars >>

QueryExchange(id, parseable, status, query) ==
    Exchange(id, UrlQueryWarp10, "POST", parseable, status,
             QueryBody(TRUE, status, "string", TRUE), query)

\* click the datasource card 'test_warp10'; waitForTimeout(500).  The panel
\* editor may run the panel's initial query on its own.
S_selectDs ==
    /\ At("selectDs")
    /\ \/ /\ Advance("fillQuery")
          /\ \/ UNCHANGED << netVars, waiters, armedAtTrigger >>
             \/ /\ \E status \in HttpStatuses :
                      Issue(QueryExchange(nextId + 1, TRUE, status, "initial"))
                /\ UNCHANGED completed
       \/ Throw /\ UNCHANGED << netVars, waiters, armedAtTrigger >>
    /\ UNCHANGED << listenerVars, hostVars, logged, auxVars >>

\* await page.locator('.query-editor-row textarea').first().fill('1 2 +')
S_fillQuery == Fill("fillQuery", "clickRun", "query", "1 2 +")

\* click 'RefreshPicker run button': the page posts the query.
S_clickRun ==
    /\ At("clickRun")
    /\ \/ /\ Advance("wait500")
          /\ \E parseable \in BOOLEAN, status \in HttpStatuses :
                Issue(QueryExchange(nextId + 1, parseable, status, form.query))
          /\ UNCHANGED completed
       \/ Throw /\ UNCHANGED << netVars, waiters, armedAtTrigger >>
    /\ UNCHANGED << listenerVars, hostVars, logged, auxVars >>

\* await page.waitForTimeout(500)
S_wait500 ==
    /\ At("wait500")
    /\ Advance("validate")
    /\ UNCHANGED << captureVars, netVars, hostVars, histVars, auxVars >>

\* What FinalTestValidation logs; it throws nothing and returns nothing.
FinalTestValidation(resps) ==
    IF Len(resps) > 0
    THEN IF resps[Len(resps)].status = 200
         THEN "Test completed successfully"
         ELSE "Test failed"
    ELSE "No /api/ds/query response captured."

\* const lastResponse = responses[responses.length - 1]: the entry
\* FinalTestValidation reads, by the exchange it came from (0: none).
LastResponseId(resps) ==
    IF Len(resps) > 0 THEN resps[Len(resps)].id ELSE 0

\* await FinalTestValidation(responses)
S_validate ==
    /\ At("validate")
    /\ Advance("gotoList")
    /\ logged' = [ logged EXCEPT !.final = FinalTestValidation(responses),
                                  !.validated = LastResponseId(responses) ]
    /\ UNCHANGED << captureVars, netVars, hostVars, armedAtTrigger, auxVars >>

\* await page.goto(myDsPath)
S_gotoList == UiStep("gotoList", "clickDsLink")

\* click link 'test_warp10' (there is one only if the host lists that name);
\* waitForTimeout(500)
S_clickDsLink ==
    /\ At("clickDsLink")
    /\ \/ DsName \in hostDs /\ Advance("clickDelete")
       \/ Throw
    /\ UNCHANGED << captureVars, netVars, hostVars, histVars, auxVars >>

\* await deleteButton.click()
S_clickDelete == UiStep("clickDelete", "clickConfirm")

\* await confirmButton.click(): the host deletes the datasource; the test
\* function returns.
S_clickConfirm ==
    /\ At("clickConfirm")
    /\ \/ /\ hostDs' = hostDs \ { DsName }
          /\ outcome' = "passed"
          /\ pc' = "done"
          /\ UNCHANGED << test, failedAt, form, alert >>
       \/ Throw /\ UNCHANGED hostVars
    /\ UNCHANGED << captureVars, netVars, histVars, auxVars >>

ScenarioStep ==
    \/ S_getGrafanaVersion \/ S_gotoNew \/ S_clickWarp10 \/ S_fillName
    \/ S_fillInvalidUrl \/ S_clickSaveInvalid \/ S_expectAlertVisible
    \/ S_expectAlertText \/ S_fillUrl \/ S_clickSave \/ S_checkHealth
    \/ S_clickBuild \/ S_addPanel \/ S_selectDs \/ S_fillQuery \/ S_clickRun
    \/ S_wait500 \/ S_validate \/ S_gotoList \/ S_clickDsLink \/ S_clickDelete
    \/ S_clickConfirm

InitScenario ==
    /\ test = Scenario
    /\ InitCommon
    /\ InitAux

NextScenario ==
    \/ RegisterListener
    \/ ScenarioStep
    \/ \E ex \in inflight : HostRespond(ex)
    \/ \E p \in pending : JsonSettle(p)

SpecScenario == InitScenario /\ [][NextScenario]_vars

\* The test runner starts the scenario again (the next run of the suite, or a
\* retry): a new page and new locals of the test function, against the host as
\* the finished run left it.
S_restart ==
    /\ test = Scenario /\ pc = "done"
    /\ pc' = "start"
    /\ outcome' = "running"
    /\ failedAt' = "none"
    /\ listening' = FALSE
    /\ inflight' = {}
    /\ pending' = {}
    /\ responses' = << >>
    /\ healthResponse' = NullJson
    /\ completed' = << >>
    /\ nextId' = 0
    /\ form' = [ name |-> "", url |-> "", query |-> "", saved |-> FALSE ]
    /\ alert' = "none"
    /\ waiters' = {}
    /\ logged' = [ health |-> "none", final |-> "none", validated |-> 0 ]
    /\ armedAtTrigger' = {}
    /\ UNCHANGED << test, hostDs, auxVars >>

\* The test timeout of the runner (playwright.config.ts sets none, so the
\* default one applies) fires while the test body is suspended in an await:
\* the runner ends the test as timed out; the statements after the await do
\* not run and the file declares no hook that would.
S_timeout ==
    /\ test = Scenario /\ outcome = "running"
    /\ pc \notin { "start", "done" }
    /\ outcome' = "timedOut"
    /\ failedAt' = pc
    /\ pc' = "done"
    /\ UNCHANGED << test, captureVars, netVars, hostVars, histVars, auxVars >>

NextTimeout ==
    \/ NextScenario
    \/ S_timeout

SpecTimeout == InitScenario /\ [][NextTimeout]_vars

NextTwice ==
    \/ NextScenario
    \/ S_restart

SpecTwice == InitScenario /\ [][NextTwice]_vars

-----------------------------------------------------------------------------
(* Test 'macros: Warp10 macro definition and usage (positive and           *)
(* negative)' (datasource_test.spec.ts).  It registers no listener: it     *)
(* waits for the request, and in the negative step for the response too.   *)

Macros == "datasource_test.spec.ts: macros"

AddMacro    == "'addmacro' STORE"
BrokenMacro == "'brokenmacro' STORE"

InMacros(p) == test = Macros /\ pc = p /\ outcome = "running"

MacroUiStep(from, to) ==
    /\ InMacros(from)
    /\ \/ Advance(to)
       \/ Throw
    /\ UNCHANGED << captureVars, netVars, hostVars, histVars, auxVars >>

\* const version = await getGrafanaVersion(page); log(version)
M_getGrafanaVersion == MacroUiStep("start", "m_goto")

\* await page.goto('/dashboards'); waitForTimeout(1000)
M_goto == MacroUiStep("m_goto", "m_newDashboard")

\* await goToNewDashboard(page)
M_goToNewDashboard == MacroUiStep("m_newDashboard", "m_panelMenu")

\* click 'Menu for panel with title Graph Example'
M_openPanelMenu == MacroUiStep("m_panelMenu", "m_edit")

\* await clickEditButton(page)
M_clickEditButton ==
    /\ InMacros("m_edit")
    /\ \E d \in [ DOMAIN EditSelectors -> DomStates ] :
          IF clickEditButton(d).threw THEN Throw ELSE Advance("m_editorReady")
    /\ UNCHANGED << captureVars, netVars, hostVars, histVars, auxVars >>

\* expect(editor).toBeAttached(); expect(editor).toBeVisible()
M_editorReady == MacroUiStep("m_editorReady", "m_fillMacro")

MacroFill(from, to, text) ==
    /\ InMacros(from)
    /\ \/ Advance(to) /\ form' = [ form EXCEPT !.query = text ]
       \/ Throw /\ UNCHANGED form
    /\ UNCHANGED << captureVars, netVars, hostDs, alert, histVars, auxVars >>

\* await editor.fill(macroCode)
M_fillMacro == MacroFill("m_fillMacro", "m_armRequest", AddMacro)

\* First element of the Promise.all array: the call page.waitForRequest(...)
\* or page.waitForResponse(...) registers its wait before it suspends.
ArmWait(from, to, event, needle) ==
    /\ InMacros(from)
    /\ waiters' = waiters \cup
          { [ event |-> event, needle |-> needle, matched |-> 0 ] }
    /\ Advance(to)
    /\ UNCHANGED << listenerVars, netVars, hostVars, histVars, auxVars >>

M_armWaitRequest == ArmWait("m_armRequest", "m_clickRun", "request", AddMacro)

\* Last element of the Promise.all array: click 'RefreshPicker run button'.
\* The page posts the text of the editor, or what it held before the fill.
RunClick(from, to) ==
    /\ InMacros(from)
    /\ \/ /\ Advance(to)
          /\ \E parseable \in BOOLEAN, status \in HttpStatuses,
                text \in { form.query, "loaded" } :
                Issue(QueryExchange(nextId + 1, parseable, status, text))
          /\ UNCHANGED completed
       \/ Throw /\ UNCHANGED << netVars, waiters, armedAtTrigger >>
    /\ UNCHANGED << listenerVars, hostVars, logged, auxVars >>

\* Requests the dashboard page may send on its own before the run click.
MaxPageTraffic == 1

\* Requests the dashboard page sends on its own while the first wait is
\* pending: to the query endpoint or elsewhere, POST or GET, with the text of
\* the editor or the query the panel was loaded with.
PageTrafficShapes ==
    { [ url |-> UrlQueryWarp10, method |-> "POST", text |-> form.query ],
      [ url |-> UrlQueryWarp10, method |-> "POST", text |-> "loaded" ],
      [ url |-> UrlQueryWarp10, method |-> "GET",  text |-> form.query ],
      [ url |-> UrlOther,       method |-> "POST", text |-> form.query ] }

M_pageTraffic ==
    /\ InMacros("m_clickRun")
    /\ nextId < MaxPageTraffic
    /\ \E sh \in PageTrafficShapes :
          Issue(Exchange(nextId + 1, sh.url, sh.method, TRUE, 200,
                         QueryBody(TRUE, 200, "string", TRUE), sh.text))
    /\ UNCHANGED << flowVars, listenerVars, completed, hostVars, logged, auxVars >>

M_clickRun == RunClick("m_clickRun", "m_awaitAll")

\* await Promise.all([...]): it resolves when every wait has its event, and it
\* rejects when a wait times out.
AwaitAll(from, to) ==
    /\ InMacros(from)
    /\ \/ /\ \A w \in waiters : w.matched # 0
          /\ Advance(to)
       \/ /\ \E w \in waiters : w.matched = 0
          /\ Throw
    /\ UNCHANGED << captureVars, netVars, hostVars, histVars, auxVars >>

M_awaitAll == AwaitAll("m_awaitAll", "m_expectPayload")

\* The exchange with identity id, among those issued.
IssuedById(id) ==
    CHOOSE ex \in inflight \cup { completed[i] : i \in DOMAIN completed } :
        ex.id = id

\* expect(macroPayload.queries?.[0]?.expr).toContain("'addmacro' STORE")
M_expectPayload ==
    /\ InMacros("m_expectPayload")
    /\ IF \A w \in waiters :
            w.event = "request" => IssuedById(w.matched).query = AddMacro
       THEN Advance("m_fillBroken")
       ELSE Throw
    /\ waiters' = {}
    /\ UNCHANGED << listenerVars, netVars, hostVars, histVars, auxVars >>

\* await editor.fill(brokenMacro)
M_fillBroken == MacroFill("m_fillBroken", "m_armRequest2", BrokenMacro)

M_armWaitRequest2 == ArmWait("m_armRequest2", "m_armResponse2", "request", BrokenMacro)

M_armWaitResponse2 == ArmWait("m_armResponse2", "m_clickRun2", "response", BrokenMacro)

M_clickRun2 == RunClick("m_clickRun2", "m_awaitAll2")

M_awaitAll2 == AwaitAll("m_awaitAll2", "m_errorJson")

\* The response the waitForResponse call returned.
ErrorResponse ==
    IssuedById((CHOOSE w \in waiters : w.event = "response").matched)

\* const errorResult = await errorResponse.json()
M_errorJson ==
    /\ InMacros("m_errorJson")
    /\ IF ErrorResponse.parseable THEN Advance("m_expectError") ELSE Throw
    /\ UNCHANGED << captureVars, netVars, hostVars, histVars, auxVars >>

\* expect(errorResult.results?.A?.error).toBeTruthy();
\* expect(errorResult.results.A.status).not.toBe(200); log('completed')
M_expectError ==
    /\ InMacros("m_expectError")
    /\ IF ErrorResponse.body.aStatus # 200
       THEN /\ outcome' = "passed"
            /\ pc' = "done"
            /\ UNCHANGED << test, failedAt >>
       ELSE Throw
    /\ UNCHANGED << captureVars, netVars, hostVars, histVars, auxVars >>

MacrosStep ==
    \/ M_getGrafanaVersion \/ M_goto \/ M_goToNewDashboard \/ M_openPanelMenu
    \/ M_clickEditButton \/ M_editorReady \/ M_fillMacro \/ M_armWaitRequest
    \/ M_clickRun \/ M_awaitAll \/ M_expectPayload \/ M_fillBroken
    \/ M_armWaitRequest2 \/ M_armWaitResponse2 \/ M_clickRun2 \/ M_awaitAll2
    \/ M_errorJson \/ M_expectError \/ M_pageTraffic

InitMacros ==
    /\ test = Macros
    /\ InitCommon
    /\ InitAux

NextMacros ==
    \/ MacrosStep
    \/ \E ex \in inflight : HostRespond(ex)

SpecMacros == InitMacros /\ [][NextMacros]_vars

-----------------------------------------------------------------------------
(* The response checking loop of editor_test.spec.ts ('Editor: test all    *)
(* features ...') and query-editor.spec.ts ('Warp10 QueryEditor handles    *)
(* all loaded queries').  The loop body has no await: the buffer is the    *)
(* one the listener had filled when the loop was reached.                  *)

\* Longest capture buffer the checking loop is run on.
MaxResponses == 2

\* body.version of /api/health: release strings, a string that is no number,
\* and undefined when the body has no version.
Undefined == "undefined"

Versions == { "9.5.2", "10.4.0", "11.0.0", "12.0.0", "beta", Undefined }

\* parseInt(version.split('.')[0], 10): a number, or NaN.
ParseMajor(v) ==
    CASE v = "9.5.2"  -> [ nan |-> FALSE, val |-> 9 ]
      [] v = "10.4.0" -> [ nan |-> FALSE, val |-> 10 ]
      [] v = "11.0.0" -> [ nan |-> FALSE, val |-> 11 ]
      [] v = "12.0.0" -> [ nan |-> FALSE, val |-> 12 ]
      [] OTHER        -> [ nan |-> TRUE,  val |-> 0 ]

\* major >= n, false for NaN.
MajorGe(m, n) == ~m.nan /\ m.val >= n

\* major < n, false for NaN.
MajorLt(m, n) == ~m.nan /\ m.val < n

SchemaNameTypes == { "string", "undefined" }

\* Bodies of captured query responses: without results.A, or with it.
QueryBodies ==
    { QueryBody(FALSE, 0, "undefined", FALSE) } \cup
    { QueryBody(TRUE, st, nt, arr) :
        st \in HttpStatuses, nt \in SchemaNameTypes, arr \in BOOLEAN }

\* Entries the listener can have pushed.
CapturedEntries ==
    { [ id |-> 0, url |-> UrlQueryWarp10, json |-> b, status |-> st ] :
        b \in QueryBodies, st \in HttpStatuses }

RuleNames == << "status", "resultStatus", "schemaName", "valuesArray" >>

\* The four expects of the try block, in their order, on one entry r:
\* expect(r.status).toBe(200); expect(resultA.status).toBe(200);
\* expect(typeof schemaName).toBe('string'); expect(Array.isArray(...)).toBe(true)
RuleHolds(k, r) ==
    CASE k = 1 -> r.status = 200
      [] k = 2 -> r.json.aStatus = 200
      [] k = 3 -> r.json.nameType = "string"
      [] k = 4 -> r.json.valuesIsArray

InValidate(p) == test \in { Editor, QueryEditor } /\ pc = p /\ outcome = "running"

ValidateFrame ==
    UNCHANGED << captureVars, netVars, hostVars, histVars, version, polls,
                 resolveVars, probeVars, convVars, parVars >>

\* if (major >= 10) { ... } of the editor test; the query-editor test has no
\* such condition.
\* The editor test without the condition of its verification block.
V_gateAlways ==
    /\ InValidate("gate")
    /\ IF test = Editor THEN Advance("poll") ELSE Advance("expectCaptured")
    /\ UNCHANGED << index, report >>
    /\ ValidateFrame

V_gate ==
    /\ InValidate("gate")
    /\ IF test = Editor
       THEN IF MajorGe(ParseMajor(version), 10)
            THEN Advance("poll")
            ELSE Advance("expectEditor")
       ELSE Advance("expectCaptured")
    /\ UNCHANGED << index, report >>
    /\ ValidateFrame

\* Iterations of the poll loop of the editor test.
MaxPolls == 10

\* A poll loop whose condition lets it wait once more.
V_pollOneMore ==
    /\ InValidate("poll")
    /\ IF polls <= MaxPolls /\ Len(responses) = 0
       THEN polls' = polls + 1 /\ Advance("poll")
       ELSE polls' = 0 /\ Advance("expectCaptured")
    /\ UNCHANGED << captureVars, netVars, hostVars, histVars, version, index,
                    report, resolveVars, probeVars, convVars, parVars >>

\* for (let i = 0; i < 10; i++) { if (responses.length > 0) {break;}
\*                                await page.waitForTimeout(500); }
\* one evaluation of the loop condition and of the body; i goes out of scope
\* when the loop is left.
V_poll ==
    /\ InValidate("poll")
    /\ IF polls < MaxPolls /\ Len(responses) = 0
       THEN polls' = polls + 1 /\ Advance("poll")
       ELSE polls' = 0 /\ Advance("expectCaptured")
    /\ UNCHANGED << captureVars, netVars, hostVars, histVars, version, index,
                    report, resolveVars, probeVars, convVars, parVars >>

\* expect(responses.length).toBeGreaterThan(0); for (let index = 0; ...
V_expectCaptured ==
    /\ InValidate("expectCaptured")
    /\ IF Len(responses) > 0
       THEN Advance("loop") /\ index' = 1
       ELSE Throw /\ UNCHANGED index
    /\ UNCHANGED report
    /\ ValidateFrame

\* Loop head: index < responses.length; resultA = r.json?.results?.A;
\* if (!resultA) { log('Skipping'); continue; }
V_loop ==
    /\ InValidate("loop")
    /\ IF index > Len(responses)
       THEN Advance("expectEditor") /\ UNCHANGED index
       ELSE IF ~responses[index].json.hasA
            THEN Advance("loop") /\ index' = index + 1
            ELSE Advance("rule1") /\ UNCHANGED index
    /\ UNCHANGED report
    /\ ValidateFrame

\* Expect number k of the try block: when it holds its log line is written and
\* the next statement runs; when it fails it throws, the catch block logs the
\* error and the loop goes to the next response.
Expect(k, from, to) ==
    /\ InValidate(from)
    /\ report' = Append(report, [ response |-> index, rule |-> k,
                                  held |-> RuleHolds(k, responses[index]) ])
    /\ IF RuleHolds(k, responses[index])
       THEN /\ Advance(to)
            /\ index' = IF to = "loop" THEN index + 1 ELSE index
       ELSE /\ Advance("loop")
            /\ index' = index + 1
    /\ ValidateFrame

V_expectStatus       == Expect(1, "rule1", "rule2")
V_expectResultStatus == Expect(2, "rule2", "rule3")
V_expectSchemaName   == Expect(3, "rule3", "rule4")
V_expectValuesArray  == Expect(4, "rule4", "loop")

\* await expect(editor).toHaveValue(...); log('Test completed!')
V_expectEditor ==
    /\ InValidate("expectEditor")
    /\ \/ /\ outcome' = "passed"
          /\ pc' = "done"
          /\ UNCHANGED << test, failedAt >>
       \/ Throw
    /\ UNCHANGED << index, report >>
    /\ ValidateFrame

InitValidate ==
    /\ test \in { Editor, QueryEditor }
    /\ pc = "gate"
    /\ outcome = "running"
    /\ failedAt = "none"
    /\ listening = TRUE
    /\ inflight = {}
    /\ pending = {}
    /\ \E n \in 0..MaxResponses :
          responses \in [ 1..n -> CapturedEntries ]
    /\ healthResponse = NullJson
    /\ completed = << >>
    /\ nextId = 0
    /\ hostDs = {}
    /\ form = [ name |-> "", url |-> "", query |-> "", saved |-> FALSE ]
    /\ alert = "none"
    /\ waiters = {}
    /\ logged = [ health |-> "none", final |-> "none", validated |-> 0 ]
    /\ armedAtTrigger = {}
    /\ version \in IF test = Editor THEN Versions \ { Undefined } ELSE { "unprobed" }
    /\ index = 0
    /\ report = << >>
    /\ helper = "none"
    /\ dom = << >>
    /\ attempts = 0
    /\ resolved = NoResult
    /\ probes = IF version = "unprobed" THEN 0 ELSE 1
    /\ choices = NoChoices
    /\ source = NoTimestamp
    /\ converted = NoTimestamp
    /\ polls = 0
    /\ runs = NoRuns

ValidateStep ==
    \/ V_gate \/ V_poll \/ V_expectCaptured \/ V_loop
    \/ V_expectStatus \/ V_expectResultStatus \/ V_expectSchemaName
    \/ V_expectValuesArray \/ V_expectEditor

NextValidate == ValidateStep

SpecValidate == InitValidate /\ [][NextValidate]_vars

\* Values resultA.frames?.[0]?.schema?.name can have: strings, the empty one
\* among them, a number, and undefined when the path is missing; each with
\* what `typeof` gives for it.
SchemaNames ==
    { [ type |-> "string",    text |-> "io.warp10.grafana.test" ],
      [ type |-> "string",    text |-> "" ],
      [ type |-> "number",    text |-> "42" ],
      [ type |-> "undefined", text |-> "" ] }

TypeOf(name) == name.type

\* A body with results.A, with the schema name its first frame carries.
SchemaBody(aStatus, name, valuesIsArray) ==
    [ hasA |-> TRUE, aStatus |-> aStatus, nameType |-> TypeOf(name),
      valuesIsArray |-> valuesIsArray, name |-> name ]

SchemaEntries ==
    { [ id |-> 0, url |-> UrlQueryWarp10, json |-> SchemaBody(a, n, arr),
        status |-> st ] :
        a \in HttpStatuses, n \in SchemaNames, arr \in BOOLEAN,
        st \in HttpStatuses }

\* The checking loop on a buffer of one response, for every schema name.
InitSchema ==
    /\ test \in { Editor, QueryEditor }
    /\ pc = "gate"
    /\ outcome = "running"
    /\ failedAt = "none"
    /\ listening = TRUE
    /\ inflight = {}
    /\ pending = {}
    /\ \E e \in SchemaEntries : responses = << e >>
    /\ healthResponse = NullJson
    /\ completed = << >>
    /\ nextId = 0
    /\ hostDs = {}
    /\ form = [ name |-> "", url |-> "", query |-> "", saved |-> FALSE ]
    /\ alert = "none"
    /\ waiters = {}
    /\ logged = [ health |-> "none", final |-> "none", validated |-> 0 ]
    /\ armedAtTrigger = {}
    /\ version \in IF test = Editor THEN Versions \ { Undefined } ELSE { "unprobed" }
    /\ index = 0
    /\ report = << >>
    /\ helper = "none"
    /\ dom = << >>
    /\ attempts = 0
    /\ resolved = NoResult
    /\ probes = IF version = "unprobed" THEN 0 ELSE 1
    /\ choices = NoChoices
    /\ source = NoTimestamp
    /\ converted = NoTimestamp
    /\ polls = 0
    /\ runs = NoRuns

SpecSchema == InitSchema /\ [][NextValidate]_vars

-----------------------------------------------------------------------------
(* The selector helpers, each run on a page drawn from the pages it can    *)
(* meet, followed by the statement after the helper call.                  *)

\* Bound of `while (attempts++ < 3)`.
MaxAttempts == 3

InResolve(h, p) == helper = h /\ pc = p /\ outcome = "running"

ResolveFrame ==
    UNCHANGED << captureVars, netVars, hostVars, histVars, validVars, helper, dom,
                 probeVars, convVars, parVars >>

\* await clickAddPanelButton(page)
R_clickAddPanelButton ==
    /\ InResolve("clickAddPanelButton", "resolve")
    /\ resolved' = clickAddPanelButton(dom)
    /\ IF resolved'.threw THEN Throw ELSE Advance("following")
    /\ UNCHANGED attempts
    /\ ResolveFrame

\* await clickEditButton(page)
R_clickEditButton ==
    /\ InResolve("clickEditButton", "resolve")
    /\ resolved' = clickEditButton(dom)
    /\ IF resolved'.threw THEN Throw ELSE Advance("following")
    /\ UNCHANGED attempts
    /\ ResolveFrame

\* One evaluation of `while (attempts++ < 3)` and of the loop body
\* try { await page.getByRole('button', { name: 'Test' }).click(); break; }
\* catch { log('Button not clicked'); await page.waitForTimeout(1000); }
R_testButtonAttempt ==
    /\ InResolve("testButtonRetry", "resolve")
    /\ attempts' = attempts + 1
    /\ IF attempts < MaxAttempts
       THEN \/ /\ resolved' = [ chosen |-> 1, clicked |-> TRUE, threw |-> FALSE ]
               /\ Advance("following")
            \/ /\ UNCHANGED resolved
               /\ Advance("resolve")
       ELSE /\ UNCHANGED resolved
            /\ Advance("following")
    /\ ResolveFrame

\* await Promise.race([...]) of clickMenuToggle / clickDashboardsNav settles
\* with the first probe that settles.
R_raceSettle ==
    /\ helper \in RaceHelpers /\ pc = "resolve" /\ outcome = "running"
    /\ \E i \in FirstSettled(dom) :
          resolved' = [ chosen |-> RaceFound(dom, i), clicked |-> FALSE,
                        threw |-> FALSE ]
    /\ Advance("raced")
    /\ UNCHANGED attempts
    /\ ResolveFrame

\* if (found) { await page.click(found) } else { throw new Error(...) }
R_raceClick ==
    /\ helper \in RaceHelpers /\ pc = "raced" /\ outcome = "running"
    /\ IF resolved.chosen # 0
       THEN /\ resolved' = [ resolved EXCEPT !.clicked = TRUE ]
            /\ Advance("following")
       ELSE /\ resolved' = [ resolved EXCEPT !.threw = TRUE ]
            /\ Throw
    /\ UNCHANGED attempts
    /\ ResolveFrame

\* await goToNewDashboard(page)
R_goToNewDashboard ==
    /\ InResolve("goToNewDashboard", "resolve")
    /\ resolved' = goToNewDashboard(dom)
    /\ IF resolved'.threw THEN Throw ELSE Advance("following")
    /\ UNCHANGED attempts
    /\ ResolveFrame

\* The statement after the helper call runs and the test goes on to its end.
R_following ==
    /\ helper # "none" /\ pc = "following" /\ outcome = "running"
    /\ outcome' = "passed"
    /\ pc' = "done"
    /\ UNCHANGED << test, failedAt, attempts, resolved >>
    /\ ResolveFrame

InitResolve ==
    /\ \/ /\ helper = "clickAddPanelButton" /\ test = Scenario
          /\ dom \in [ DOMAIN AddPanelSelectors -> DomStates ]
       \/ /\ helper = "clickEditButton" /\ test = Editor
          /\ dom \in [ DOMAIN EditSelectors -> DomStates ]
       \/ /\ helper = "testButtonRetry" /\ test = Datasource
          /\ dom = << >>
       \/ /\ helper \in RaceHelpers /\ test = Editor
          /\ dom \in [ DOMAIN RaceSelectors(helper) -> DomStates ]
       \/ /\ helper = "goToNewDashboard" /\ test \in { Editor, Macros }
          /\ dom \in [ DOMAIN NewDashboardSelectors -> DomStates ]
    /\ pc = "resolve"
    /\ outcome = "running"
    /\ failedAt = "none"
    /\ listening = TRUE
    /\ inflight = {}
    /\ pending = {}
    /\ responses = << >>
    /\ healthResponse = NullJson
    /\ completed = << >>
    /\ nextId = 0
    /\ hostDs = {}
    /\ form = [ name |-> "", url |-> "", query |-> "", saved |-> FALSE ]
    /\ alert = "none"
    /\ waiters = {}
    /\ logged = [ health |-> "none", final |-> "none", validated |-> 0 ]
    /\ armedAtTrigger = {}
    /\ version \in IF helper = "testButtonRetry" THEN { "unprobed" }
                   ELSE IF test = Editor THEN Versions \ { Undefined }
                   ELSE Versions
    /\ index = 0
    /\ report = << >>
    /\ attempts = 0
    /\ resolved = NoResult
    /\ probes = IF version = "unprobed" THEN 0 ELSE 1
    /\ choices = NoChoices
    /\ source = NoTimestamp
    /\ converted = NoTimestamp
    /\ polls = 0
    /\ runs = NoRuns

ResolveStep ==
    \/ R_clickAddPanelButton
    \/ R_clickEditButton
    \/ R_testButtonAttempt
    \/ R_raceSettle
    \/ R_raceClick
    \/ R_goToNewDashboard
    \/ R_following

NextResolve == ResolveStep

SpecResolve == InitResolve /\ [][NextResolve]_vars

-----------------------------------------------------------------------------
(* getGrafanaVersion and the choices the tests make by the major version:  *)
(* the first version of the scenario (senario.spec.ts), the datasource     *)
(* test and the editor test.                                                *)

ScenarioV1 == "senario.spec.ts: version-dependent locators"

ProbeTests == { ScenarioV1, Datasource, Editor }

\* The version-dependent constants of each test, in program order.
ChoiceOrder(t) ==
    IF t = ScenarioV1
    THEN << "basePath", "saveButtonName", "myDsPath", "deleteButton", "confirmButton" >>
    ELSE IF t = Datasource
    THEN << "dsPath", "saveButton", "deleteButton", "confirmButton" >>
    ELSE << "verify" >>

\* A test in which deleteButton is chosen by another threshold than the rest.
BranchMixed(f, m) ==
    IF f = "verify"
    THEN IF MajorGe(m, 10) THEN "ge10" ELSE "lt10"
    ELSE IF f = "deleteButton"
         THEN IF MajorLt(m, 11) THEN "lt10" ELSE "ge10"
         ELSE IF MajorLt(m, 10) THEN "lt10" ELSE "ge10"

\* The branch a choice takes: `major < 10 ? legacy : current` for the
\* constants, `if (major >= 10)` for the verification block.
Branch(f, m) ==
    IF f = "verify"
    THEN IF MajorGe(m, 10) THEN "ge10" ELSE "lt10"
    ELSE IF MajorLt(m, 10) THEN "lt10" ELSE "ge10"

\* The two operands of each `major < 10 ? a : b`: b is "lt10" for a, "ge10"
\* for b.  A path is written as a record of type "path".
ChoiceValue(f, b) ==
    CASE f \in { "basePath", "dsPath" } ->
            [ type |-> "path",
              name |-> IF b = "lt10"
                       THEN "/connections/your-connections/datasources/new"
                       ELSE "/connections/datasources/new" ]
      [] f = "myDsPath" ->
            [ type |-> "path",
              name |-> IF b = "lt10"
                       THEN "/connections/your-connections/datasources"
                       ELSE "/connections/datasources" ]
      [] f \in { "saveButtonName", "saveButton" } ->
            [ type |-> "role",
              name |-> IF b = "lt10"
                       THEN "Data source settings page Save and Test button"
                       ELSE "Save & test" ]
      [] f = "deleteButton" ->
            [ type |-> IF b = "lt10" THEN "role" ELSE "testId",
              name |-> "Data source settings page Delete button" ]
      [] f = "confirmButton" ->
            [ type |-> IF b = "lt10" THEN "role" ELSE "testId",
              name |-> IF b = "lt10"
                       THEN "Confirm Modal Danger Button"
                       ELSE "data-testid Confirm Modal Danger Button" ]
      [] OTHER -> [ type |-> "block", name |-> b ]

\* The value a constant of the test holds once it is set.
Chosen(f) == ChoiceValue(f, choices[f])

IndexOf(seq, f) == CHOOSE i \in DOMAIN seq : seq[i] = f

\* The statement after choice f of test t.
AfterChoice(t, f) ==
    LET order == ChoiceOrder(t)
        i == IndexOf(order, f)
    IN  IF i < Len(order) THEN order[i + 1] ELSE "p_goto"

InProbe(p) == test \in ProbeTests /\ pc = p /\ outcome = "running"

ProbeFrame ==
    UNCHANGED << captureVars, netVars, hostVars, histVars, index, report, polls,
                 resolveVars, convVars, parVars >>

\* A test that calls getGrafanaVersion again for each of its choices.
P_chooseReprobed ==
    /\ test \in ProbeTests /\ outcome = "running"
    /\ pc \in ChoiceNames
    /\ \E v \in Versions \ { Undefined } :
          /\ version' = v
          /\ choices' = [ choices EXCEPT ![pc] = Branch(pc, ParseMajor(v)) ]
    /\ probes' = probes + 1
    /\ Advance(AfterChoice(test, pc))
    /\ ProbeFrame

\* const version = await getGrafanaVersion(page): the request to /api/health
\* fails or its body is no JSON (the call throws), or body.version is returned.
P_getGrafanaVersion ==
    /\ InProbe("probe")
    /\ probes' = probes + 1
    /\ \/ /\ \E v \in Versions : version' = v
          /\ Advance("parseMajor")
       \/ /\ Throw
          /\ UNCHANGED version
    /\ UNCHANGED choices
    /\ ProbeFrame

\* const major = parseInt(version.split('.')[0], 10): undefined.split throws a
\* TypeError; a string that is no number gives NaN.
P_parseMajor ==
    /\ InProbe("parseMajor")
    /\ IF version = Undefined
       THEN Throw
       ELSE Advance(ChoiceOrder(test)[1])
    /\ UNCHANGED << version, probeVars >>
    /\ ProbeFrame

\* const x = major < 10 ? a : b   /   if (major >= 10) { ... }
P_choose ==
    /\ test \in ProbeTests /\ outcome = "running"
    /\ pc \in ChoiceNames
    /\ choices' = [ choices EXCEPT ![pc] = Branch(pc, ParseMajor(version)) ]
    /\ Advance(AfterChoice(test, pc))
    /\ UNCHANGED << version, probes >>
    /\ ProbeFrame

\* The statements that use the chosen constants (page.goto(basePath), the
\* button clicks) and the rest of the test.
P_goto ==
    /\ InProbe("p_goto")
    /\ \/ /\ outcome' = "passed"
          /\ pc' = "done"
          /\ UNCHANGED << test, failedAt >>
       \/ Throw
    /\ UNCHANGED << version, probeVars >>
    /\ ProbeFrame

InitProbe ==
    /\ test \in ProbeTests
    /\ pc = "probe"
    /\ outcome = "running"
    /\ failedAt = "none"
    /\ listening = TRUE
    /\ inflight = {}
    /\ pending = {}
    /\ responses = << >>
    /\ healthResponse = NullJson
    /\ completed = << >>
    /\ nextId = 0
    /\ hostDs = {}
    /\ form = [ name |-> "", url |-> "", query |-> "", saved |-> FALSE ]
    /\ alert = "none"
    /\ waiters = {}
    /\ logged = [ health |-> "none", final |-> "none", validated |-> 0 ]
    /\ armedAtTrigger = {}
    /\ InitAux

ProbeStep ==
    \/ P_getGrafanaVersion
    \/ P_parseMajor
    \/ P_choose
    \/ P_goto

NextProbe == ProbeStep

SpecProbe == InitProbe /\ [][NextProbe]_vars

-----------------------------------------------------------------------------
(* Any one of the tests runs.                                              *)

-----------------------------------------------------------------------------
(* The two loops of the tests, with the runner's scheduling: the poll loop *)
(* of the editor test while the listener still handles responses, and the *)
(* Test-button retry loop of the datasource test.                          *)

\* Listener invocations suspended in response.json() when the editor test
\* gets to its poll loop: none, one whose body parses, one whose body does not
\* parse, or both.
PollInvocation(id, parseable) ==
    [ ex |-> QueryExchange(id, parseable, 200, "loaded"), branch |-> "query" ]

PollPending ==
    { {}, { PollInvocation(1, TRUE) }, { PollInvocation(1, FALSE) },
      { PollInvocation(1, FALSE), PollInvocation(2, TRUE) } }

\* A suspended listener invocation settles during a wait of the poll loop.
L_pollCapture ==
    /\ InValidate("poll")
    /\ \E p \in pending : JsonSettle(p)

InitPoll ==
    /\ test = Editor
    /\ pc = "gate"
    /\ outcome = "running"
    /\ failedAt = "none"
    /\ listening = TRUE
    /\ inflight = {}
    /\ pending \in PollPending
    /\ responses = << >>
    /\ healthResponse = NullJson
    /\ completed = IF pending = {} THEN << >>
                   ELSE IF Cardinality(pending) = 1
                        THEN << (CHOOSE p \in pending : TRUE).ex >>
                        ELSE << PollInvocation(1, FALSE).ex,
                                PollInvocation(2, TRUE).ex >>
    /\ nextId = Cardinality(pending)
    /\ hostDs = {}
    /\ form = [ name |-> "", url |-> "", query |-> "", saved |-> FALSE ]
    /\ alert = "none"
    /\ waiters = {}
    /\ logged = [ health |-> "none", final |-> "none", validated |-> 0 ]
    /\ armedAtTrigger = {}
    /\ version \in Versions \ { Undefined }
    /\ index = 0
    /\ report = << >>
    /\ helper = "none"
    /\ dom = << >>
    /\ attempts = 0
    /\ resolved = NoResult
    /\ probes = 1
    /\ choices = NoChoices
    /\ source = NoTimestamp
    /\ converted = NoTimestamp
    /\ polls = 0
    /\ runs = NoRuns

InitLoops ==
    \/ InitPoll
    \/ InitResolve /\ helper = "testButtonRetry"

\* The statements of the test function.
LoopsStep ==
    \/ ValidateStep
    \/ R_testButtonAttempt
    \/ R_following

NextLoops ==
    \/ LoopsStep
    \/ L_pollCapture

\* Every await of the test function is a timer or has a timeout, so a test
\* that can take a step takes one; nothing is assumed of the listener.
SpecLoops == InitLoops /\ [][NextLoops]_vars /\ WF_vars(LoopsStep)

-----------------------------------------------------------------------------
(* Timestamp conversion of the datasource: the store's timestamps are in   *)
(* microseconds, the timestamps of a response in milliseconds.             *)

Backend == "timestamp conversion"

\* Timestamps the conversion is run on: around each multiple of 1000 and of
\* 500 microseconds, at both ends of a second, and the documented example.
SourceSeconds == { 0, 1, 1700000000 }

SourceMicros ==
    { 0, 1, 499, 500, 501, 999, 1000, 1001, 1499, 1500, 1999, 2000,
      123000, 123456, 123499, 123500, 123999, 999000, 999499, 999500, 999999 }

\* A conversion that rounds to the nearest millisecond.
ToMillisRounded(ts) ==
    LET r == (ts.f + 500) \div 1000
    IN  IF r = 1000 THEN Timestamp(ts.s + 1, 0) ELSE Timestamp(ts.s, r)

\* floor(source / 1000): the seconds are kept and the microseconds of the
\* fraction are divided by 1000 without remainder.
ToMillis(ts) == Timestamp(ts.s, ts.f \div 1000)

\* The datasource converts the timestamp of one datapoint.
T_convert ==
    /\ test = Backend /\ pc = "convert" /\ outcome = "running"
    /\ converted' = ToMillis(source)
    /\ pc' = "done"
    /\ outcome' = "passed"
    /\ UNCHANGED << test, failedAt, captureVars, netVars, hostVars, histVars,
                    validVars, resolveVars, probeVars, source, parVars >>

InitConvert ==
    /\ test = Backend
    /\ pc = "convert"
    /\ outcome = "running"
    /\ failedAt = "none"
    /\ listening = FALSE
    /\ inflight = {}
    /\ pending = {}
    /\ responses = << >>
    /\ healthResponse = NullJson
    /\ completed = << >>
    /\ nextId = 0
    /\ hostDs = {}
    /\ form = [ name |-> "", url |-> "", query |-> "", saved |-> FALSE ]
    /\ alert = "none"
    /\ waiters = {}
    /\ logged = [ health |-> "none", final |-> "none", validated |-> 0 ]
    /\ armedAtTrigger = {}
    /\ version = "unprobed"
    /\ index = 0
    /\ report = << >>
    /\ helper = "none"
    /\ dom = << >>
    /\ attempts = 0
    /\ resolved = NoResult
    /\ probes = 0
    /\ choices = NoChoices
    /\ source \in { Timestamp(s, f) : s \in SourceSeconds, f \in SourceMicros }
    /\ converted = NoTimestamp
    /\ polls = 0
    /\ runs = NoRuns

ConvertStep == T_convert

NextConvert == ConvertStep

SpecConvert == InitConvert /\ [][NextConvert]_vars

-----------------------------------------------------------------------------
\* The scenario of senario.spec.ts run by the chromium and the firefox project
\* at once against the host at http://localhost:3000.  Each flow is the
\* scenario reduced to the statements that create, name, use and delete a
\* datasource; the host keeps datasource names unique.

\* The name the host gives to a datasource created from the plugin's button.
DefaultName(ds) ==
    IF \E d \in ds : d.name = NewDsName
    THEN "clevercloud-warp10-datasource-1" ELSE NewDsName

\* The datasources of the host that carry the name test_warp10.
Named(ds) == { d \in ds : d.name = DsName }

ParallelFrame ==
    UNCHANGED << flowVars, captureVars, netVars, hostVars, histVars, validVars,
                 resolveVars, probeVars, convVars >>

FlowAt(p, step) == runs.at[p] = step

\* await page.goto(basePath); click the button 'Warp10': the host creates a
\* datasource of the plugin under a default name.
W_create(p) ==
    /\ FlowAt(p, "create")
    /\ runs' = [ runs EXCEPT !.at[p] = "fillName",
                             !.ds = @ \cup { [ name |-> DefaultName(@), owner |-> p ] } ]
    /\ ParallelFrame

\* await page.fill('#basic-settings-name', 'test_warp10'); fill the URL
W_fillName(p) ==
    /\ FlowAt(p, "fillName")
    /\ runs' = [ runs EXCEPT !.at[p] = "clickSaveInvalid" ]
    /\ ParallelFrame

\* click 'Save & test': the host renames the flow's datasource, or refuses
\* when another datasource has the name.
FlowSave(p, from, to) ==
    /\ FlowAt(p, from)
    /\ IF \E d \in Named(runs.ds) : d.owner # p
       THEN runs' = [ runs EXCEPT !.at[p] = to, !.alert[p] = NameExists ]
       ELSE runs' = [ runs EXCEPT
                        !.at[p] = to,
                        !.alert[p] = HealthRefused.message,
                        !.ds = { IF d.owner = p THEN [ d EXCEPT !.name = DsName ]
                                 ELSE d : d \in @ } ]
    /\ ParallelFrame

W_clickSaveInvalid(p) == FlowSave(p, "clickSaveInvalid", "expectAlertText")

\* expect(alertText).toContain('connect: connection refused')
W_expectAlertText(p) ==
    /\ FlowAt(p, "expectAlertText")
    /\ runs' = [ runs EXCEPT !.at[p] =
                    IF runs.alert[p] = HealthRefused.message
                    THEN "clickSave" ELSE "failed" ]
    /\ ParallelFrame

\* fill 'http://warp10:8080'; click saveButtonName
W_clickSave(p) == FlowSave(p, "clickSave", "selectDs")

\* A click on the element of the page that shows the name test_warp10: it
\* throws when the host has no datasource of that name, and it acts on the
\* one that has the name, whichever flow created it.
FlowClickNamed(p, from, to) ==
    /\ FlowAt(p, from)
    /\ IF Named(runs.ds) = {}
       THEN runs' = [ runs EXCEPT !.at[p] = "failed" ]
       ELSE \E d \in Named(runs.ds) :
               runs' = [ runs EXCEPT
                           !.at[p] = to,
                           !.opened[p] = d.owner,
                           !.crossed[p] = @ \/ d.owner # p ]
    /\ ParallelFrame

\* page.locator('[data-testid="data-source-card"] span',
\*              { hasText: 'test_warp10' }).click()
W_selectDs(p) == FlowClickNamed(p, "selectDs", "clickDsLink")

\* page.goto(myDsPath); page.getByRole('link', { name: 'test_warp10' }).click()
W_clickDsLink(p) == FlowClickNamed(p, "clickDsLink", "clickDelete")

\* await deleteButton.click()
W_clickDelete(p) ==
    /\ FlowAt(p, "clickDelete")
    /\ runs' = [ runs EXCEPT !.at[p] = "clickConfirm" ]
    /\ ParallelFrame

\* await confirmButton.click(): the host deletes the datasource whose
\* settings page is open.
W_clickConfirm(p) ==
    /\ FlowAt(p, "clickConfirm")
    /\ runs' = [ runs EXCEPT !.at[p] = "done",
                             !.ds = { d \in @ : d.owner # runs.opened[p] } ]
    /\ ParallelFrame

InitParallel ==
    /\ test = Scenario
    /\ InitCommon
    /\ version = "unprobed"
    /\ index = 0
    /\ report = << >>
    /\ helper = "none"
    /\ dom = << >>
    /\ attempts = 0
    /\ resolved = NoResult
    /\ probes = 0
    /\ choices = NoChoices
    /\ source = NoTimestamp
    /\ converted = NoTimestamp
    /\ polls = 0
    /\ runs = [ NoRuns EXCEPT !.at = [ p \in Projects |-> "create" ] ]

NextParallel ==
    \E p \in Projects :
        \/ W_create(p) \/ W_fillName(p) \/ W_clickSaveInvalid(p)
        \/ W_expectAlertText(p) \/ W_clickSave(p) \/ W_selectDs(p)
        \/ W_clickDsLink(p) \/ W_clickDelete(p) \/ W_clickConfirm(p)

SpecParallel == InitParallel /\ [][NextParallel]_vars

\* Both flows have ended.
FlowsEnded == \A p \in Projects : runs.at[p] \in { "done", "failed" }

\* C38: when the scenario flows of two projects run interleaved against the
\* same host, no step of a flow acts on the datasource the other flow
\* created, each flow deletes the datasource it created, and the host ends
\* with no datasource named test_warp10.
C38_InterleavedFlowsIsolated ==
    /\ \A p \in Projects : ~runs.crossed[p]
    /\ FlowsEnded =>
          /\ \A p \in Projects : \A d \in runs.ds : d.owner # p
          /\ Named(runs.ds) = {}

-----------------------------------------------------------------------------
Init ==
    \/ InitCapture
    \/ InitScenario
    \/ InitMacros
    \/ InitValidate
    \/ InitResolve
    \/ InitProbe
    \/ InitConvert

Next ==
    \/ RegisterListener
    \/ Goto
    \/ EnvRequest
    \/ \E ex \in inflight : HostRespond(ex)
    \/ \E p \in pending : JsonSettle(p)
    \/ ScenarioStep
    \/ MacrosStep
    \/ ValidateStep
    \/ ResolveStep
    \/ ProbeStep
    \/ ConvertStep

Spec == Init /\ [][Next]_vars

-----------------------------------------------------------------------------
(* Phases of the scenario, read off the position of its flow of control.   *)

PhaseOf(p) ==
    CASE p \in { "start", "registered" } -> "Init"
      [] p \in { "gotoNew", "clickWarp10", "fillName", "fillInvalidUrl",
                 "clickSaveInvalid", "expectAlertVisible", "expectAlertText",
                 "fillUrl" } -> "Configuring"
      [] p \in { "clickSave", "checkHealth" } -> "HealthChecking"
      [] p \in { "clickBuild", "addPanel", "selectDs" } -> "BuildingDashboard"
      [] p \in { "fillQuery", "clickRun", "wait500" } -> "Querying"
      [] p = "validate" -> "Validating"
      [] p \in { "gotoList", "clickDsLink", "clickDelete", "clickConfirm" }
            -> "CleaningUp"
      [] OTHER -> "Terminal"

\* State of the scenario state machine.
State ==
    IF pc # "done" THEN PhaseOf(pc)
    ELSE IF outcome = "passed" THEN "Completed" ELSE "Failed"

\* The datasource this run saved as test_warp10, while it is on the host.
CleanupObligations == hostDs \cap { DsName }

-----------------------------------------------------------------------------
(* Claims about the scenario (SpecScenario).                               *)

\* C1: when the scenario ends after a failure in HealthChecking, Querying or
\* Validating, the datasource test_warp10 it created is no longer on the host.
C1_DatasourceDeletedAfterFailure ==
    ( /\ pc = "done"
      /\ PhaseOf(failedAt) \in { "HealthChecking", "Querying", "Validating" } )
    => DsName \notin hostDs

\* C2: the scenario is in state Failed only when it failed during CleaningUp or
\* no cleanup obligation is left.
C2_FailedOnlyAfterCleanup ==
    State = "Failed" =>
        \/ PhaseOf(failedAt) = "CleaningUp"
        \/ CleanupObligations = {}

\* C5: a scenario whose validation found the capture buffer empty does not end
\* as passed; the empty capture is a recorded failure.
C5_EmptyCaptureIsFailure ==
    ( pc = "done" /\ logged.final = FinalTestValidation(<< >>) )
    => outcome = "failed"

\* C13: the entry the scenario validates comes from the exchange whose request
\* carries the injected query '1 2 +'.
C13_ValidatedCarriesInjectedQuery ==
    ( test = Scenario /\ logged.validated # 0 ) =>
        IssuedById(logged.validated).query = "1 2 +"

\* The statements of the scenario in program order.
ScenarioOrder ==
    << "start", "registered", "gotoNew", "clickWarp10", "fillName",
       "fillInvalidUrl", "clickSaveInvalid", "expectAlertVisible",
       "expectAlertText", "fillUrl", "clickSave", "checkHealth", "clickBuild",
       "addPanel", "selectDs", "fillQuery", "clickRun", "wait500", "validate",
       "gotoList", "clickDsLink", "clickDelete", "clickConfirm", "done" >>

Pos(p) == CHOOSE i \in DOMAIN ScenarioOrder : ScenarioOrder[i] = p

\* The scenario has got as far as statement p.
Reached(p) ==
    /\ test = Scenario
    /\ Pos(IF outcome \in { "failed", "timedOut" } THEN failedAt ELSE pc) >= Pos(p)

\* C15: the scenario gets to the valid-URL configuration only when the health
\* check of the invalid URL answered with the connection-refused indicator and
\* no OK status, and a run that does not see the indicator in the alert fails.
C15_ContinuesOnlyAfterRefused ==
    /\ [](Reached("fillUrl") =>
            \E i \in DOMAIN completed :
                /\ Includes(completed[i].url, "/health")
                /\ completed[i].body.message = HealthRefused.message
                /\ completed[i].body.status # HealthOk.status)
    /\ [][ ( /\ test = Scenario
             /\ pc \in { "expectAlertVisible", "expectAlertText" }
             /\ alert # HealthRefused.message
             /\ pc' \notin { pc, "expectAlertText" } ) => outcome' = "failed" ]_vars

\* The scenario fills the valid URL after it saw the refusal in the alert.
C15_Witness ==
    /\ test = Scenario /\ pc = "fillUrl"
    /\ alert = HealthRefused.message

\* C16: the scenario starts to build the dashboard only after it received a
\* health response that reports a successful connection.
C16_BuildOnlyAfterHealthOk ==
    Reached("clickBuild") =>
        \E i \in DOMAIN completed :
            /\ Includes(completed[i].url, "/health")
            /\ completed[i].body.status = HealthOk.status

\* C37: the health result the scenario reports after the Save & test click on
\* the valid URL is the response to that click: when it logs that the health
\* check passed, healthResponse holds the parsed answer to the health request
\* of that click, never an answer left from the earlier invalid-URL save.
C37_ReportedHealthIsOfThisSave ==
    [][ ( /\ test = Scenario
          /\ logged.health # "passed"
          /\ logged'.health = "passed" ) =>
            \E i \in DOMAIN completed :
                /\ Includes(completed[i].url, "/health")
                /\ \A ex \in inflight \cup { completed[j] : j \in DOMAIN completed } :
                      Includes(ex.url, "/health") => ex.id <= completed[i].id
                /\ \A j \in DOMAIN completed :
                      ( j # i /\ Includes(completed[j].url, "/health") ) =>
                          completed[j].id < completed[i].id
                /\ completed[i].parseable
                /\ \A q \in pending : q.ex.id # completed[i].id
                /\ healthResponse = completed[i].body ]_vars

\* C24: a test passes only if what it validated held: the scenario not when
\* FinalTestValidation found a last response with a status other than 200,
\* the tests with the checking loop not when a rule failed on a response.
C24_PassedOnlyIfValidationsHeld ==
    /\ ( test = Scenario /\ outcome = "passed" ) =>
            logged.final # "Test failed"
    /\ ( test \in { Editor, QueryEditor } /\ outcome = "passed" ) =>
            \A j \in DOMAIN report : report[j].held

\* Step 4 of the scenario: the statements that delete the datasource.
CleanupSteps == { "gotoList", "clickDsLink", "clickDelete", "clickConfirm" }

\* C23: when a statement of the cleanup fails, the failure is recorded and
\* the cleanup statements after it are still run.
C23_CleanupContinuesAfterFailure ==
    ( test = Scenario /\ outcome = "failed" /\ failedAt \in CleanupSteps ) =>
        \A p \in CleanupSteps : Reached(p)

\* C32: whichever statement failed, a scenario that saved its datasource
\* unwinds it: the delete has been initiated when the scenario has failed; the
\* confirm click is issued only right after the delete click, and the
\* datasource leaves the host only by the confirm click.
C32_UnwindDeleteThenConfirm ==
    /\ []( ( test = Scenario /\ outcome = "failed" /\ form.saved ) =>
              Reached("clickDelete") )
    /\ [][ ( test = Scenario /\ pc' = "clickConfirm" /\ pc # pc' ) =>
              pc = "clickDelete" ]_vars
    /\ [][ ( DsName \in hostDs /\ DsName \notin hostDs' ) =>
              pc = "clickConfirm" ]_vars

-----------------------------------------------------------------------------
(* Claims about the scenario under the test timeout (SpecTimeout).         *)

\* C28: a scenario ended by the test timeout has run its cleanup: the
\* datasource it created is deleted, and no statement of the scenario that
\* comes after the suspended one has run.
C28_TimeoutRunsCleanup ==
    ( test = Scenario /\ outcome = "timedOut" ) =>
        /\ DsName \notin hostDs
        /\ pc = "done"

-----------------------------------------------------------------------------
(* Claims about consecutive runs of the scenario (SpecTwice).              *)

\* C17: every run of the scenario ends with no datasource test_warp10 on the
\* host, and no run fails on the host's refusal of a name that is taken.
C17_RunsLeaveNoDatasource ==
    /\ ( test = Scenario /\ pc = "done" ) => DsName \notin hostDs
    /\ ~( test = Scenario /\ outcome = "failed" /\ alert = NameExists )

-----------------------------------------------------------------------------
(* Claims about the capture listener (SpecCapture).                        *)

\* The completed exchanges the armed query filter matches, in completion order.
MatchingCompleted == SelectSeq(completed, LAMBDA ex : QueryFilter(test, ex))

Ids(seq) == [ i \in DOMAIN seq |-> seq[i].id ]

\* C3: once every listener invocation has finished, and when every matching
\* body parses, the buffer holds the matching completed exchanges in the order
\* their responses completed.
C3_BufferInCompletionOrder ==
    ( /\ pending = {}
      /\ \A i \in DOMAIN MatchingCompleted : MatchingCompleted[i].parseable )
    => Ids(responses) = Ids(MatchingCompleted)

\* C8: once every listener invocation has finished, the buffer has one entry
\* per matching completed exchange, whether or not its body parsed.
C8_UnparseableStillBuffered ==
    pending = {} => Len(responses) = Len(MatchingCompleted)

\* The completed exchanges that matched neither `if` of the listener.
Unmatched(t) ==
    { i \in DOMAIN completed :
        ~QueryFilter(t, completed[i]) /\ ~HealthFilter(t, completed[i]) }

\* C34: every entry of the buffer comes from a POST exchange whose URL
\* contains /api/ds/query (and the ds_type of the plugin in the query-editor
\* test); the buffer changes only by an exchange of the query branch, which
\* leaves the health result alone; the health result changes only by an
\* exchange of the health branch, which leaves the buffer alone; and the
\* response of an exchange matching neither changes nothing of the listener.
C34_FiltersIndependent ==
    /\ [](\A i \in DOMAIN responses :
            \E j \in DOMAIN completed :
                /\ completed[j].id = responses[i].id
                /\ completed[j].method = "POST"
                /\ Includes(responses[i].url, "/api/ds/query")
                /\ test = QueryEditor =>
                      Includes(responses[i].url,
                               "ds_type=clevercloud-warp10-datasource"))
    /\ [][ responses' # responses =>
              /\ healthResponse' = healthResponse
              /\ \E p \in pending :
                    /\ QueryFilter(test, p.ex)
                    /\ responses' = Append(responses, Captured(p.ex)) ]_vars
    /\ [][ healthResponse' # healthResponse =>
              /\ responses' = responses
              /\ \E p \in pending :
                    /\ HealthFilter(test, p.ex)
                    /\ healthResponse' = p.ex.body ]_vars
    /\ [][ \A ex \in inflight :
              ( /\ ex \notin inflight'
                /\ ~QueryFilter(test, ex) /\ ~HealthFilter(test, ex) ) =>
                    UNCHANGED listenerVars ]_vars

\* The datasource test has captured a query response and a health response,
\* and the page has completed an exchange that matches neither filter.
C34_Witness ==
    /\ test = Datasource
    /\ Len(responses) >= 1
    /\ healthResponse # NullJson
    /\ Unmatched(Datasource) # {}
    /\ pending = {}

-----------------------------------------------------------------------------
(* Claims about the response checking loop (SpecValidate).                 *)

\* The loop is past response i.
Checked(i) == pc \in { "expectEditor", "done" } \/ (pc = "loop" /\ index > i)

\* C6: once the loop is past a response that has a result A, the outcome of
\* each of the four rules on that response has been recorded.
C6_EveryRuleEvaluated ==
    \A i \in DOMAIN responses :
        ( index # 0 /\ Checked(i) /\ responses[i].json.hasA ) =>
            \A k \in DOMAIN RuleNames :
                \E j \in DOMAIN report :
                    report[j].response = i /\ report[j].rule = k

\* C7: as soon as a failed rule is recorded the test has failed: no further
\* step of the test runs after it.
C7_ValidationFailureStops ==
    ( \E j \in DOMAIN report : ~report[j].held ) => outcome = "failed"

\* C22: the negative macro step is passed only with a result that carries an
\* error status, and a test whose checking loop went over a response with an
\* embedded status other than 200 does not pass.
C22_ScriptErrorOnlyWhereExpected ==
    /\ ( test = Macros /\ outcome = "passed" ) =>
            ErrorResponse.body.aStatus # 200
    /\ \A i \in DOMAIN responses :
          ( /\ test \in { Editor, QueryEditor }
            /\ index # 0 /\ Checked(i)
            /\ responses[i].json.hasA
            /\ responses[i].json.aStatus # 200 ) => outcome # "passed"

\* The report holds the outcome of rule k on response i.
Reported(i, k) ==
    \E j \in DOMAIN report : report[j].response = i /\ report[j].rule = k

\* C25: for each combination of HTTP status and embedded status of a checked
\* response, the report states the outcome of the HTTP status check and the
\* outcome of the embedded status check.
C25_BothStatusChecksReported ==
    \A i \in DOMAIN responses :
        ( index # 0 /\ Checked(i) /\ responses[i].json.hasA ) =>
            Reported(i, 1) /\ Reported(i, 2)

\* C26: every response the loop went over, one without a result named A
\* included, has an outcome in the report.
C26_NoResponseSkipped ==
    \A i \in DOMAIN responses :
        ( index # 0 /\ Checked(i) ) => \E k \in DOMAIN RuleNames : Reported(i, k)

\* The body of a response for a series with zero datapoints that carries the
\* values of the series as an empty array: Array.isArray([]) is true, and the
\* loop reads neither the length nor the elements of the array.
EmptySeriesBody(b) == b.hasA /\ b.valuesIsArray

\* C30: for a response whose series has zero datapoints and whose value array
\* is an empty array, the schema name check and the array check are both
\* evaluated and their outcomes reported.
C30_EmptySeriesStillChecked ==
    \A i \in DOMAIN responses :
        ( index # 0 /\ Checked(i) /\ EmptySeriesBody(responses[i].json) ) =>
            Reported(i, 3) /\ Reported(i, 4)

-----------------------------------------------------------------------------
(* Claims about the schema checks of the loop (SpecSchema).                *)

\* C31: the schema name check is recorded as held only for a name that is a
\* non-empty string, and the array check only for a first value column that
\* is an array.
C31_SchemaCheckNeedsNonEmptyName ==
    \A j \in DOMAIN report :
        LET body == responses[report[j].response].json
        IN  /\ ( report[j].rule = 3 /\ report[j].held ) =>
                    body.name.type = "string" /\ body.name.text # ""
            /\ ( report[j].rule = 4 /\ report[j].held ) => body.valuesIsArray

-----------------------------------------------------------------------------
(* Claims about the selector helpers (SpecResolve).                        *)

\* C9: the statement after an action runs only if the action was performed.
C9_UnresolvedActionFails ==
    pc = "following" => resolved.clicked

\* C10: a chosen candidate is visible, and no candidate declared before it is.
C10_FirstVisibleCandidate ==
    ( helper \in { "clickAddPanelButton", "clickEditButton" }
      /\ resolved.chosen # 0 ) =>
        /\ dom[resolved.chosen] = "visible"
        /\ \A j \in DOMAIN dom : j < resolved.chosen => dom[j] # "visible"

\* C11: a helper that probes its candidates concurrently fails only when no
\* candidate is visible or becomes visible within the wait.
C11_RaceFailsOnlyIfNoneVisible ==
    ( helper \in RaceHelpers /\ resolved.threw ) =>
        \A i \in DOMAIN dom : ~ProbeResolves(dom[i])

\* C12: a helper that ends in a resolution failure has issued no click.
C12_FailedResolutionNoClick ==
    resolved.threw => ~resolved.clicked

\* C33: when several candidates of a concurrently probed action are visible
\* at once, the one the race selects is the one declared first.
C33_RaceKeepsDeclaredPriority ==
    ( helper \in RaceHelpers /\ resolved.chosen # 0 ) =>
        \A j \in DOMAIN dom :
            ( j < resolved.chosen ) => dom[j] # "visible"

\* Helpers whose candidates carry no version condition.
UnconditionalHelpers == { "clickAddPanelButton" } \cup RaceHelpers

\* C20: whatever version the probe returned, a helper without version
\* conditions does not fail when one of its candidates is visible.
C20_VisibleCandidateResolves ==
    ( /\ helper \in UnconditionalHelpers
      /\ version \in Versions
      /\ \E i \in DOMAIN dom : dom[i] = "visible" ) => ~resolved.threw

-----------------------------------------------------------------------------
(* Claims about every test (Spec).                                         *)

\* C4: whenever a UI action made the page issue an exchange the test captures,
\* the listener or the wait that captures it was already registered.
C4_CaptureArmedBeforeTrigger ==
    \A t \in armedAtTrigger : t.armed

\* The scenario has issued both health checks and the query, each with the
\* listener registered.
C4_Witness ==
    /\ test = Scenario
    /\ { "clickSaveInvalid", "clickSave", "clickRun" }
          \subseteq { t.at : t \in { u \in armedAtTrigger : u.armed } }

\* Sequence a is an initial part of sequence b.
IsPrefix(a, b) ==
    /\ Len(a) <= Len(b)
    /\ \A i \in DOMAIN a : a[i] = b[i]

\* C27: the capture buffer only grows at its end: what it held before a step
\* is an initial part of what it holds after, the one step that changes it is
\* the listener pushing the entry of a response it handled, and no statement
\* of the test body changes it.
C27_BufferAppendOnly ==
    [][ /\ IsPrefix(responses, responses')
        /\ responses' # responses =>
              /\ pc' = pc
              /\ \E p \in pending : responses' = Append(responses, Captured(p.ex))
      ]_vars

\* The listener of the editor test has pushed two entries.
C27_Witness ==
    test = Editor /\ Len(responses) >= 2 /\ completed # << >>

-----------------------------------------------------------------------------
(* Claims about the macros test (SpecMacros).                              *)

\* C14: the request a macro wait returned is a POST to /api/ds/query whose body
\* contains the macro text waited for, and the payload step of the positive
\* test is passed only with a request whose body contains 'addmacro' STORE.
C14_MacroRequestMatches ==
    /\ [](\A w \in waiters :
            ( w.event = "request" /\ w.matched # 0 ) =>
                /\ IssuedById(w.matched).method = "POST"
                /\ Includes(IssuedById(w.matched).url, "/api/ds/query")
                /\ IssuedById(w.matched).query = w.needle)
    /\ [][ ( pc = "m_expectPayload" /\ pc' = "m_fillBroken" ) =>
              \E w \in waiters :
                  /\ w.event = "request" /\ w.matched # 0
                  /\ IssuedById(w.matched).query = AddMacro ]_vars

\* The positive step has passed while the page had also sent a request that
\* fails one of the three conditions.
C14_Witness ==
    /\ test = Macros /\ pc = "m_fillBroken"
    /\ \E i \in DOMAIN completed :
          completed[i].method = "GET" \/ completed[i].query # AddMacro

\* C36: in the negative macro step the response the error assertions are
\* applied to is always the response to a request whose body contains
\* 'brokenmacro' STORE; whatever the order in which the responses arrive, it
\* is never the response to the earlier 'addmacro' query.
C36_ErrorResponseIsBrokenMacro ==
    /\ \A w \in waiters :
          ( w.event = "response" /\ w.matched # 0 ) =>
              /\ IssuedById(w.matched).query = BrokenMacro
              /\ IssuedById(w.matched).query # AddMacro
    /\ ( test = Macros /\ pc \in { "m_errorJson", "m_expectError" } ) =>
          ErrorResponse.query = BrokenMacro

\* The error assertions are reached while the response to the 'addmacro'
\* query of the positive step is still in flight.
C36_Witness ==
    /\ test = Macros /\ pc = "m_expectError"
    /\ ErrorResponse.query = BrokenMacro
    /\ \E ex \in inflight : ex.query = AddMacro /\ ex.id < ErrorResponse.id

-----------------------------------------------------------------------------
(* Claims about the version probe (SpecProbe).                             *)

\* C18: a choice by the major version is made only with a major that is a
\* number; a version that cannot be parsed never reaches the choices.
C18_NoChoiceOnNaN ==
    ( \E f \in ChoiceNames : choices[f] # "none" ) => ~ParseMajor(version).nan

\* C19: getGrafanaVersion is called at most once in a test, before the first
\* choice by the version, the version it returned never changes, and every
\* choice is the branch for that version.
C19_ProbedOnceAndFixed ==
    /\ [](probes <= 1)
    /\ [](\A f \in ChoiceNames :
            choices[f] # "none" =>
                /\ probes = 1
                /\ choices[f] = Branch(f, ParseMajor(version)))
    /\ [][ version # "unprobed" => version' = version ]_vars

\* The datasource test has made its four choices from the probed version.
C19_Witness ==
    /\ test = Datasource /\ pc = "p_goto"
    /\ \A f \in { "dsPath", "saveButton", "deleteButton", "confirmButton" } :
          choices[f] # "none"

\* The constants that locate the new-datasource page and its buttons.
LocatorChoices == ChoiceNames \ { "verify" }

-----------------------------------------------------------------------------
(* Claims about the timestamp conversion (SpecConvert).                    *)

\* C29: the converted timestamp is floor(source / 1000): the one millisecond
\* value m with 1000 * m <= source < 1000 * (m + 1), never one rounded up;
\* 1700000000123456 gives 1700000000123.
C29_ConversionIsFloor ==
    ( test = Backend /\ pc = "done" ) =>
        /\ converted.s = source.s
        /\ converted.f \in 0..999
        /\ 1000 * converted.f <= source.f
        /\ source.f < 1000 * (converted.f + 1)
        /\ source = Timestamp(1700000000, 123456) =>
              converted = Timestamp(1700000000, 123)

\* The example of the documentation has been converted.
C29_Witness ==
    /\ test = Backend /\ pc = "done"
    /\ source = Timestamp(1700000000, 123456)
    /\ converted = Timestamp(1700000000, 123)

-----------------------------------------------------------------------------
(* Claims about the loops (SpecLoops).                                     *)

\* C35: every run reaches its end; the Test button is clicked only in the
\* first three evaluations of the retry loop and the loop is left at the
\* first click that succeeds; the poll loop waits at most ten times and
\* waits again only while the buffer is empty.
C35_LoopsTerminate ==
    /\ <>(pc = "done")
    /\ [](polls <= MaxPolls)
    /\ [][ polls' > polls => Len(responses) = 0 ]_vars
    /\ [][ ( helper = "testButtonRetry" /\ attempts' # attempts ) =>
              /\ attempts < MaxAttempts \/ pc' = "following"
              /\ resolved'.clicked => pc' = "following"
              /\ ~resolved.clicked ]_vars

\* The poll loop has waited ten times on an empty buffer while a listener
\* invocation is still suspended.
C35_Witness ==
    /\ test = Editor /\ pc = "poll" /\ polls = MaxPolls
    /\ responses = << >> /\ pending # {}

\* C39: in the editor test the captured responses are validated exactly when
\* the probed major version is at least 10.  With a lower major or a version
\* that is no number, no statement of the run reads the buffer: the only
\* steps are the gate and the check of the editor content, nothing is
\* reported, and the outcome is the one of the editor content check, so two
\* runs that differ only in what was captured end alike.
C39_GateDecidesValidation ==
    /\ []( ( test = Editor /\ ~MajorGe(ParseMajor(version), 10) ) =>
              /\ report = << >> /\ index = 0 /\ polls = 0
              /\ failedAt \in { "none", "expectEditor" } )
    /\ [][ ( test = Editor /\ ~MajorGe(ParseMajor(version), 10) /\ pc' # pc ) =>
              \/ pc = "gate" /\ pc' = "expectEditor" /\ outcome' = "running"
              \/ pc = "expectEditor" /\ pc' = "done" ]_vars
    /\ []( ( /\ test = Editor /\ MajorGe(ParseMajor(version), 10)
             /\ pc \in { "expectEditor", "done" }
             /\ failedAt # "expectCaptured" ) =>
              /\ Len(responses) > 0
              /\ index = Len(responses) + 1 )

\* The editor test of a host of major 9 has passed while the buffer held a
\* response with a status other than 200, which nothing looked at.
C39_Witness ==
    /\ test = Editor /\ ParseMajor(version).val = 9 /\ ~ParseMajor(version).nan
    /\ pc = "done" /\ outcome = "passed"
    /\ report = << >>
    /\ \E i \in DOMAIN responses : responses[i].status # 200

=============================================================================
